---- MODULE Spec2Model ----
(***************************************************************************)
(* simarduboy (src/main.cpp): three execution contexts around an AVR core. *)
(*   - main thread   : start-up, then the SDL event loop (poll, draw)      *)
(*   - core thread   : run_core, i.e. while(running) avr_run(avr)          *)
(*   - audio thread  : SDL calls audio_callback for each block of audio    *)
(* The contexts share plain globals (running, samples, cur_sample,         *)
(* out_sample, the display's vram) with no synchronisation; the model      *)
(* interleaves them at the granularity of their accesses to those globals. *)
(* `running` is a one-byte flag that run_core re-reads at every loop test  *)
(* (avr_run is an opaque library call between two tests), so each test     *)
(* reads the value the flag holds at that moment.                          *)
(*                                                                         *)
(* Sizes are scaled down: the arithmetic is the source's, the numbers are  *)
(* small.  nsamples stands for 1024, audio_frequency for 8000,             *)
(* CyclesPerSample for 2000 (= 16000000 / 8000), Width for 128 and Pages   *)
(* for 8.                                                                  *)
(***************************************************************************)
EXTENDS Integers, Sequences, FiniteSets

\* ---------------------------------------------------------------- bounds
\* capacity of the sample array (1024 in the source)
nsamples == 3
\* samples per emulated second (8000 in the source)
audio_frequency == 2
\* emulated cycles between two samples (16000000 / 8000 = 2000 in the source)
CyclesPerSample == 2
\* samples' worth of emulated time the core may run
MaxSamples == 4
\* most cycles one avr_run call consumes
MaxStep == 3
\* display columns (128 in the source) and pages of 8 rows (8 in the source)
Width == 2
Pages == 1
\* number of bytes the display controller writes into vram
MaxVramWrites == 1
\* number of host events that arrive
MaxEvents == 2

\* ------------------------------------------------------------- constants
\* avr->frequency / program.frequency; 16000000 = 2000 * 8000 in the source
cpu_frequency == CyclesPerSample * audio_frequency
\* static avr_cycle_count_t next = 16000000 / audio_frequency
next == cpu_frequency \div audio_frequency
\* avr_cycle_timer_register_usec(avr, 125, ...): 125 us of a 16 MHz clock,
\* i.e. frequency * 125 / 1000000 cycles = one sample period
timer_first_due == cpu_frequency \div audio_frequency
MaxCycle == MaxSamples * CyclesPerSample
Height == Pages * 8
WHITE == 16777215
BLACK == 0
UINT8 == 256
UINT16 == 65536

Buttons == {"BUTTON_UP", "BUTTON_DOWN", "BUTTON_LEFT", "BUTTON_RIGHT", "BUTTON_A", "BUTTON_B"}
PinNames == {"F7", "F4", "F5", "F6", "E6", "B4"}
MappedScancodes == {"SDL_SCANCODE_UP", "SDL_SCANCODE_DOWN", "SDL_SCANCODE_LEFT",
                    "SDL_SCANCODE_RIGHT", "SDL_SCANCODE_A", "SDL_SCANCODE_S"}
Scancodes == MappedScancodes \cup {"SDL_SCANCODE_X"}

\* the avr_connect_irq calls, in program order
ConnectOrder ==
  << [button |-> "BUTTON_UP",    pin |-> "F7"],
     [button |-> "BUTTON_DOWN",  pin |-> "F4"],
     [button |-> "BUTTON_LEFT",  pin |-> "F5"],
     [button |-> "BUTTON_RIGHT", pin |-> "F6"],
     [button |-> "BUTTON_A",     pin |-> "E6"],
     [button |-> "BUTTON_B",     pin |-> "B4"] >>

\* switch(event.key.keysym.scancode): the irq raised for a scancode
ScancodeButton(sc) ==
  CASE sc = "SDL_SCANCODE_UP"    -> "BUTTON_UP"
    [] sc = "SDL_SCANCODE_DOWN"  -> "BUTTON_DOWN"
    [] sc = "SDL_SCANCODE_LEFT"  -> "BUTTON_LEFT"
    [] sc = "SDL_SCANCODE_RIGHT" -> "BUTTON_RIGHT"
    [] sc = "SDL_SCANCODE_A"     -> "BUTTON_A"
    [] sc = "SDL_SCANCODE_S"     -> "BUTTON_B"
    [] OTHER                     -> "none"

\* uint8_t value = event.type == SDL_KEYDOWN ? 0 : 1
\* (variant: the two levels exchanged)
KeyValue_active_high(type) == IF type = "SDL_KEYDOWN" THEN 1 ELSE 0
KeyValue(type) == IF type = "SDL_KEYDOWN" THEN 0 ELSE 1

\* the audio configuration main asks for
want == [freq |-> audio_frequency, format |-> "AUDIO_S16", channels |-> 1, samples |-> nsamples]

\* what SDL_OpenAudio may hand back in `have`: the request, or the request with
\* one field changed
HaveSpecs ==
  {want}
  \cup {[want EXCEPT !.freq = audio_frequency + 1]}
  \cup {[want EXCEPT !.format = "AUDIO_S32"]}
  \cup {[want EXCEPT !.channels = 2]}
  \cup {[want EXCEPT !.samples = s] : s \in 1..(nsamples - 1)}

FormatBytes(f) == IF f = "AUDIO_S16" THEN 2 ELSE 4

\* the len SDL passes to the callback: the size in bytes of one block of `have`
BlockBytes(h) == h.samples * h.channels * FormatBytes(h.format)

\* values a read beyond the end of samples[] may return
Garbage == {0, 16384, 65535}

\* bytes the display controller writes into vram
VramBytes == {1, 165}

\* the level an output pin reports to speaker_hook
PinLevels == {0, 1}

\* ------------------------------------------------------------- state
VARIABLES
  \* main thread
  main_pc, argc, have, running, events, nevents, irq_dst, pin, y, x, pixels,
  \* core thread and emulation core
  sim_pc, avr_cycle, timer_when, speaker_value, samples, cur_sample, vram, nvram,
  \* audio thread
  out_sample, stream,
  \* history (not program state): what was produced, consumed, stored, drawn.
  \*   produced  number of speaker_timer calls so far
  \*   pending   the samples stored since the last audio_callback (the newest nsamples)
  \*   npending  how many were stored since then; firstIdx: where the first went
  \*   cons      the last audio_callback: read cursor r before it, count of samples,
  \*             n/first/last/expect = npending/firstIdx/last store index/pending before
  \*             it, maxIdx the highest index it read, whole = no speaker_timer was
  \*             half-way
  \*   stored    the last store of speaker_timer: index, speaker level, value
  \*   stepsAfterStop  avr_run calls started while running was false
  \*   quitSeen  an SDL_QUIT was dispatched;  lastKey: the last key event dispatched
  \*             and the pins before it
  \*             and the pins before it (quit: an SDL_QUIT was dispatched earlier)
  \*   drawDirty vram was written since the current draw_display began
  \*   drawn     draw_display calls completed: iter in the current iteration of
  \*             the event loop, quit since an SDL_QUIT was dispatched (2 stands
  \*             for two or more)
  \*   held      for each byte of vram, the values it held from the start of the
  \*             latest draw_display call to its end
  produced, pending, npending, firstIdx, cons, stored, stepsAfterStop, quitSeen,
  drawDirty, lastKey, drawn, held

mainVars == <<main_pc, argc, have, running, events, nevents, irq_dst, pin, y, x, pixels>>
simVars == <<sim_pc, avr_cycle, timer_when, speaker_value, samples, cur_sample, vram, nvram>>
audioVars == <<out_sample, stream>>
histVars == <<produced, pending, npending, firstIdx, cons, stored, stepsAfterStop, quitSeen,
              drawDirty, lastKey, drawn, held>>
vars == <<mainVars, simVars, audioVars, histVars>>

ZeroVram == [p \in 0..(Pages - 1) |-> [c \in 0..(Width - 1) |-> 0]]

Init ==
  /\ main_pc = "argc"
  /\ argc \in {1, 2}
  /\ have = want
  /\ running = TRUE
  /\ events = << >>
  /\ nevents = 0
  /\ irq_dst = [b \in Buttons |-> "none"]
  /\ pin = [p \in PinNames |-> 0]
  /\ y = 0
  /\ x = 0
  /\ pixels = << >>
  /\ sim_pc = "not_started"
  /\ avr_cycle = 0
  /\ timer_when = 0
  /\ speaker_value = 0
  /\ samples = [i \in 0..(nsamples - 1) |-> 0]
  /\ cur_sample = 0
  /\ vram = ZeroVram
  /\ nvram = 0
  /\ out_sample = 0
  /\ stream = << >>
  /\ produced = 0
  /\ pending = << >>
  /\ npending = 0
  /\ firstIdx = -1
  /\ cons = [r |-> 0, count |-> 0, n |-> 0, first |-> -1, last |-> -1, expect |-> << >>,
             maxIdx |-> -1, whole |-> TRUE]
  /\ stored = [idx |-> -1, level |-> 0, value |-> 0]
  /\ stepsAfterStop = 0
  /\ quitSeen = FALSE
  /\ drawDirty = FALSE
  /\ lastKey = [type |-> "none", scancode |-> "none", before |-> [p \in PinNames |-> 0],
                quit |-> FALSE]
  /\ drawn = [iter |-> 0, quit |-> 0]
  /\ held = [p \in 0..(Pages - 1) |-> [c \in 0..(Width - 1) |-> {0}]]

Min(a, b) == IF a < b THEN a ELSE b

\* --------------------------------------------------------- main: start-up
\* program counters of main from which the audio device is unpaused
AudioRunningPcs == {"buttons", "loop_test", "poll", "draw", "join"}
\* program counters of main at which the host can queue events for the window
EventPcs == {"open_audio", "spawn", "pause_audio", "buttons", "loop_test", "poll", "draw"}

mainStartVars == <<argc, running, events, nevents, pin, y, x, pixels>>

\* the test of the first statement of main: argc <= 1
\* (variant: only an empty argument vector is refused)
usage_error_no_args(n) == n < 1
usage_error(n) == n <= 1

\* if (argc <= 1) { usage; return 1; }
main_argc ==
  /\ main_pc = "argc"
  /\ main_pc' = IF usage_error(argc) THEN "exit1" ELSE "make_avr"
  /\ UNCHANGED <<mainStartVars, have, irq_dst, simVars, audioVars, histVars>>

\* avr_make_mcu_by_name; throw when it returns NULL
main_make_avr ==
  /\ main_pc = "make_avr"
  /\ \E ok \in BOOLEAN : main_pc' = IF ok THEN "load" ELSE "aborted"
  /\ UNCHANGED <<mainStartVars, have, irq_dst, simVars, audioVars, histVars>>

\* avr_init; load the firmware; the core's clock is 16 MHz and its cycle count 0
main_load_firmware ==
  /\ main_pc = "load"
  /\ main_pc' = "display"
  /\ UNCHANGED <<mainStartVars, have, irq_dst, simVars, audioVars, histVars>>

\* ssd1306_init, ssd1306_connect: the display starts blank
main_init_display ==
  /\ main_pc = "display"
  /\ main_pc' = "speaker_irq"
  /\ vram' = ZeroVram
  /\ UNCHANGED <<mainStartVars, have, irq_dst, sim_pc, avr_cycle, timer_when, speaker_value,
                 samples, cur_sample, nvram, audioVars, histVars>>

\* the two avr_irq_register_notify(..., speaker_hook, ...) calls
main_speaker_irq ==
  /\ main_pc = "speaker_irq"
  /\ main_pc' = "timer"
  /\ UNCHANGED <<mainStartVars, have, irq_dst, simVars, audioVars, histVars>>

\* avr_cycle_timer_register_usec(avr, 125, speaker_timer, nullptr)
main_register_timer ==
  /\ main_pc = "timer"
  /\ main_pc' = "sdl_init"
  /\ timer_when' = avr_cycle + timer_first_due
  /\ UNCHANGED <<mainStartVars, have, irq_dst, sim_pc, avr_cycle, speaker_value, samples,
                 cur_sample, vram, nvram, audioVars, histVars>>

\* SDL_Init; throw when it fails
main_sdl_init ==
  /\ main_pc = "sdl_init"
  /\ \E ok \in BOOLEAN : main_pc' = IF ok THEN "video" ELSE "aborted"
  /\ UNCHANGED <<mainStartVars, have, irq_dst, simVars, audioVars, histVars>>

\* surface, window, renderer, texture; throw when one of them is NULL
main_create_video ==
  /\ main_pc = "video"
  /\ \E ok \in BOOLEAN : main_pc' = IF ok THEN "open_audio" ELSE "aborted"
  /\ UNCHANGED <<mainStartVars, have, irq_dst, simVars, audioVars, histVars>>

\* if (SDL_OpenAudio(&want, &have) < 0 || want.freq != have.freq) throw
open_audio_fails(rc, h) == rc < 0 \/ want.freq # h.freq

main_open_audio ==
  /\ main_pc = "open_audio"
  /\ \E rc \in {-1, 0}, h \in HaveSpecs :
       IF open_audio_fails(rc, h)
         THEN main_pc' = "aborted" /\ have' = have
         ELSE main_pc' = "spawn" /\ have' = h
  /\ UNCHANGED <<mainStartVars, irq_dst, simVars, audioVars, histVars>>

\* std::thread core_thread(run_core, avr)
main_spawn ==
  /\ main_pc = "spawn"
  /\ main_pc' = "pause_audio"
  /\ sim_pc' = "test"
  /\ UNCHANGED <<mainStartVars, have, irq_dst, avr_cycle, timer_when, speaker_value, samples,
                 cur_sample, vram, nvram, audioVars, histVars>>

\* SDL_PauseAudio(0)
main_pause_audio ==
  /\ main_pc = "pause_audio"
  /\ main_pc' = "buttons"
  /\ UNCHANGED <<mainStartVars, have, irq_dst, simVars, audioVars, histVars>>

\* the irq allocation loop and the six avr_connect_irq calls: every button's irq
\* is allocated and connected to its pin (nothing else reads irq[] meanwhile)
ConnectedTo(b) == (CHOOSE k \in 1..Len(ConnectOrder) : ConnectOrder[k].button = b)

main_connect_buttons ==
  /\ main_pc = "buttons"
  /\ main_pc' = "loop_test"
  /\ irq_dst' = [b \in Buttons |-> ConnectOrder[ConnectedTo(b)].pin]
  /\ UNCHANGED <<mainStartVars, have, simVars, audioVars, histVars>>

Startup ==
  \/ main_argc
  \/ main_make_avr
  \/ main_load_firmware
  \/ main_init_display
  \/ main_speaker_irq
  \/ main_register_timer
  \/ main_sdl_init
  \/ main_create_video
  \/ main_open_audio
  \/ main_spawn
  \/ main_pause_audio
  \/ main_connect_buttons

\* ------------------------------------------------------------ core thread
\* the loop test of run_core: while(running)
\* (variant: a loop that never reads the flag)
run_core_cond_forever == TRUE
run_core_cond == running

\* while(running): the test; the core thread ends when it reads false.  The
\* emulated clock stops at MaxCycle, where the test waits.
run_core_test ==
  /\ sim_pc = "test"
  /\ run_core_cond => avr_cycle < MaxCycle
  /\ sim_pc' = IF run_core_cond THEN "run" ELSE "done"
  /\ UNCHANGED <<mainVars, avr_cycle, timer_when, speaker_value, samples, cur_sample, vram,
                 nvram, audioVars, histVars>>

\* the cycles one avr_run call may consume
StepCycles == 1..Min(MaxStep, MaxCycle - avr_cycle)

histRunVars == <<produced, pending, npending, firstIdx, cons, stored, quitSeen,
                 lastKey, drawn>>

\* avr_run starts: one more call, counted when the flag is already false
RunStarts == stepsAfterStop' = IF running THEN stepsAfterStop ELSE stepsAfterStop + 1

\* avr_run executing an instruction that touches neither the speaker nor the display
avr_run_plain ==
  /\ sim_pc = "run"
  /\ \E d \in StepCycles : avr_cycle' = avr_cycle + d
  /\ sim_pc' = "timers"
  /\ RunStarts
  /\ UNCHANGED <<mainVars, timer_when, speaker_value, samples, cur_sample, vram, nvram,
                 audioVars, histRunVars, drawDirty, held>>

\* static void speaker_hook(irq, value, param) { speaker_value = value; }
speaker_hook(value) == speaker_value' = value % UINT8

\* avr_run executing an instruction that changes a speaker pin
avr_run_speaker ==
  /\ sim_pc = "run"
  /\ \E d \in StepCycles : avr_cycle' = avr_cycle + d
  /\ \E value \in PinLevels : speaker_hook(value)
  /\ sim_pc' = "timers"
  /\ RunStarts
  /\ UNCHANGED <<mainVars, timer_when, samples, cur_sample, vram, nvram,
                 audioVars, histRunVars, drawDirty, held>>

\* avr_run executing the one-cycle instruction that makes the display controller
\* write a byte
avr_run_vram ==
  /\ sim_pc = "run"
  /\ nvram < MaxVramWrites
  /\ avr_cycle' = avr_cycle + 1
  /\ \E p \in 0..(Pages - 1), c \in 0..(Width - 1), b \in VramBytes :
       /\ vram' = [vram EXCEPT ![p][c] = b]
       /\ held' = IF main_pc = "draw" THEN [held EXCEPT ![p][c] = @ \cup {b}] ELSE held
  /\ nvram' = nvram + 1
  /\ drawDirty' = TRUE
  /\ sim_pc' = "timers"
  /\ RunStarts
  /\ UNCHANGED <<mainVars, timer_when, speaker_value, samples, cur_sample,
                 audioVars, histRunVars>>

\* speaker_value * 0x4000, stored into a uint16_t
\* (variant: scaled to 0x7fff)
sample_of_full(v) == (v * 32767) % UINT16
sample_of(v) == (v * 16384) % UINT16

\* cur_sample %= nsamples
\* (variant: the reduction left out)
wrap_missing(c) == c
wrap(c) == c % nsamples

\* return when + next
\* (variant: the period counted from the core's current cycle)
speaker_timer_return_now(when) == avr_cycle + next
speaker_timer_return(when) == when + next

\* the last nsamples elements of s
LastN(s) == IF Len(s) <= nsamples THEN s ELSE SubSeq(s, Len(s) - nsamples + 1, Len(s))

\* speaker_timer, first statement: samples[cur_sample++] = speaker_value * 0x4000
\* (the timer is due: its deadline is not after the core's cycle count)
speaker_timer_store ==
  /\ sim_pc = "timers"
  /\ timer_when <= avr_cycle
  /\ samples' = IF cur_sample \in DOMAIN samples
                  THEN [samples EXCEPT ![cur_sample] = sample_of(speaker_value)]
                  ELSE samples
  /\ cur_sample' = (cur_sample + 1) % UINT16
  /\ sim_pc' = "mod"
  /\ stored' = [idx |-> cur_sample, level |-> speaker_value, value |-> sample_of(speaker_value)]
  /\ produced' = produced + 1
  /\ pending' = LastN(Append(pending, sample_of(speaker_value)))
  /\ npending' = npending + 1
  /\ firstIdx' = IF npending = 0 THEN cur_sample ELSE firstIdx
  /\ UNCHANGED <<mainVars, avr_cycle, timer_when, speaker_value, vram, nvram, audioVars,
                 cons, stepsAfterStop, quitSeen, drawDirty, lastKey, drawn, held>>

\* speaker_timer, the rest: cur_sample %= nsamples; return when + next
\* (variant: a producer that, on catching up with the reader, pushes the read
\* cursor one slot on)
speaker_timer_mod_pushing ==
  /\ sim_pc = "mod"
  /\ cur_sample' = wrap(cur_sample)
  /\ out_sample' = IF wrap(cur_sample) = out_sample THEN (out_sample + 1) % nsamples
                                                   ELSE out_sample
  /\ timer_when' = speaker_timer_return(timer_when)
  /\ sim_pc' = "timers"
  /\ UNCHANGED <<mainVars, avr_cycle, speaker_value, samples, vram, nvram, stream, histVars>>

speaker_timer_mod ==
  /\ sim_pc = "mod"
  /\ cur_sample' = wrap(cur_sample)
  /\ timer_when' = speaker_timer_return(timer_when)
  /\ sim_pc' = "timers"
  /\ UNCHANGED <<mainVars, avr_cycle, speaker_value, samples, vram, nvram, audioVars, histVars>>

\* avr_run returns once no timer is due
avr_run_return ==
  /\ sim_pc = "timers"
  /\ timer_when > avr_cycle
  /\ sim_pc' = "test"
  /\ UNCHANGED <<mainVars, avr_cycle, timer_when, speaker_value, samples, cur_sample, vram,
                 nvram, audioVars, histVars>>

\* ----------------------------------------------------------- audio thread
\* len / sizeof(*samples)
\* (variant: the byte count taken for the sample count)
SampleCount_bytes(len) == len
SampleCount(len) == len \div 2

\* memcpy(stream, samples + out_sample, len): element k of the copy; an element
\* beyond the array has the value g
Copied(k, g) == IF out_sample + k - 1 < nsamples THEN samples[out_sample + k - 1] ELSE g

\* out_sample += len / sizeof(*samples); out_sample %= nsamples
\* (variant: the reduction left out)
advance_out_nowrap(r, count) == (r + count) % UINT16
advance_out(r, count) == ((r + count) % UINT16) % nsamples

\* when SDL calls audio_callback: whenever the device is unpaused; the callback
\* tests nothing before it copies
\* (variant: the callback waits until a whole block is unread)
audio_callback_due_unread ==
  /\ main_pc \in AudioRunningPcs
  /\ npending >= SampleCount(BlockBytes(have))
audio_callback_due == main_pc \in AudioRunningPcs

audio_callback ==
  /\ audio_callback_due
  /\ LET len == BlockBytes(have)
         count == SampleCount(len)
     IN /\ \E g \in (IF out_sample + count > nsamples THEN Garbage ELSE {0}) :
             stream' = [k \in 1..count |-> Copied(k, g)]
        /\ out_sample' = advance_out(out_sample, count)
        /\ cons' = [r |-> out_sample, count |-> count, n |-> npending, first |-> firstIdx,
                    last |-> stored.idx, expect |-> pending,
                    maxIdx |-> out_sample + count - 1, whole |-> (sim_pc # "mod")]
  /\ pending' = << >>
  /\ npending' = 0
  /\ firstIdx' = -1
  /\ UNCHANGED <<mainVars, simVars, produced, stored, stepsAfterStop, quitSeen, drawDirty,
                 lastKey, drawn, held>>

\* ------------------------------------------------------ main: event loop
\* the loop test of the event loop: while(running)
\* (variant: a loop that never reads the flag)
event_loop_cond_forever == TRUE
event_loop_cond == running

\* the value case SDL_QUIT stores into running
quit_value == FALSE

\* events the host can deliver
KeyEvents == [type : {"SDL_KEYDOWN", "SDL_KEYUP"}, scancode : Scancodes]
AllEvents == KeyEvents \cup {[type |-> "SDL_QUIT", scancode |-> "none"],
                             [type |-> "SDL_MOUSEMOTION", scancode |-> "none"]}
ShutdownEvents == {[type |-> "SDL_QUIT", scancode |-> "none"],
                   [type |-> "SDL_KEYDOWN", scancode |-> "SDL_SCANCODE_UP"]}
QuitEvents == {[type |-> "SDL_QUIT", scancode |-> "none"]}

\* the host queues an event for the window
host_event(kinds) ==
  /\ main_pc \in EventPcs
  /\ nevents < MaxEvents
  /\ \E e \in kinds : events' = Append(events, e)
  /\ nevents' = nevents + 1
  /\ UNCHANGED <<main_pc, argc, have, running, irq_dst, pin, y, x, pixels,
                 simVars, audioVars, histVars>>

\* the flag once the test of the event loop has read it: a test leaves it as it is
\* (variant: the test written as the assignment running = true)
running_after_test_assigned == TRUE
running_after_test == running

\* while(running), in main
main_loop_test ==
  /\ main_pc = "loop_test"
  /\ main_pc' = IF event_loop_cond THEN "poll" ELSE "join"
  /\ running' = running_after_test
  /\ drawn' = IF event_loop_cond THEN [drawn EXCEPT !.iter = 0] ELSE drawn
  /\ UNCHANGED <<argc, have, events, nevents, irq_dst, pin, y, x, pixels,
                 simVars, audioVars, produced, pending, npending, firstIdx, cons, stored,
                 stepsAfterStop, quitSeen, drawDirty, lastKey, held>>

\* avr_raise_irq(irq[b], value): the level reaches the pin the irq is connected to
avr_raise_irq(b, value) ==
  IF b \in Buttons /\ irq_dst[b] \in PinNames
    THEN [pin EXCEPT ![irq_dst[b]] = value]
    ELSE pin

\* the pins after the switch on a key event's scancode
DispatchKey(e) == avr_raise_irq(ScancodeButton(e.scancode), KeyValue(e.type))

\* where main goes once the switch has handled event e: every `break` leaves a
\* switch, so the inner while polls again
\* (variant: the quit leaves the inner loop)
after_event_quit_leaves(e) == IF e.type = "SDL_QUIT" THEN "loop_test" ELSE "poll"
after_event(e) == "poll"

\* SDL_PollEvent returned an event: the body of the inner loop
main_poll_event ==
  /\ main_pc = "poll"
  /\ events # << >>
  /\ LET e == Head(events) IN
       /\ main_pc' = after_event(e)
       /\ events' = Tail(events)
       /\ running' = IF e.type = "SDL_QUIT" THEN quit_value ELSE running
       /\ quitSeen' = (quitSeen \/ e.type = "SDL_QUIT")
       /\ pin' = IF e.type \in {"SDL_KEYDOWN", "SDL_KEYUP"} THEN DispatchKey(e) ELSE pin
       /\ lastKey' = IF e.type \in {"SDL_KEYDOWN", "SDL_KEYUP"}
                       THEN [type |-> e.type, scancode |-> e.scancode, before |-> pin,
                             quit |-> quitSeen]
                       ELSE lastKey
  /\ UNCHANGED <<argc, have, nevents, irq_dst, y, x, pixels, simVars, audioVars,
                 produced, pending, npending, firstIdx, cons, stored, stepsAfterStop,
                 drawDirty, drawn, held>>

\* SDL_PollEvent returned 0: draw_display is called; uint32_t *p = pixels; y = 0, x = 0
main_poll_empty ==
  /\ main_pc = "poll"
  /\ events = << >>
  /\ main_pc' = "draw"
  /\ y' = 0
  /\ x' = 0
  /\ pixels' = << >>
  /\ drawDirty' = FALSE
  /\ held' = [p \in 0..(Pages - 1) |-> [c \in 0..(Width - 1) |-> {vram[p][c]}]]
  /\ UNCHANGED <<argc, have, running, events, nevents, irq_dst, pin, simVars, audioVars,
                 produced, pending, npending, firstIdx, cons, stored, stepsAfterStop, quitSeen,
                 lastKey, drawn>>

Pow2(n) == IF n = 0 THEN 1 ELSE IF n = 1 THEN 2 ELSE IF n = 2 THEN 4 ELSE IF n = 3 THEN 8
           ELSE IF n = 4 THEN 16 ELSE IF n = 5 THEN 32 ELSE IF n = 6 THEN 64 ELSE 128

\* (display.vram[y / 8][x] >> (y & 7)) & 1 ? 0xffffff : 0
\* (variants: shifted by the page number; white for a clear bit)
pixel_of_inverted(yy, xx) == IF (vram[yy \div 8][xx] \div Pow2(yy % 8)) % 2 = 1 THEN BLACK ELSE WHITE
pixel_of_page(yy, xx) == IF (vram[yy \div 8][xx] \div Pow2(yy \div 8)) % 2 = 1 THEN WHITE ELSE BLACK
pixel_of(yy, xx) == IF (vram[yy \div 8][xx] \div Pow2(yy % 8)) % 2 = 1 THEN WHITE ELSE BLACK

\* one turn of the inner loop of draw_display: *p++ = ...; x++ (and y++ at the row's end).
\* The unsynchronised read of the vram byte is a one-byte load: it returns the
\* value the byte holds at some moment of the call, here the moment of this turn.
draw_pixel ==
  /\ main_pc = "draw"
  /\ y < Height
  /\ pixels' = Append(pixels, pixel_of(y, x))
  /\ x' = IF x + 1 < Width THEN x + 1 ELSE 0
  /\ y' = IF x + 1 < Width THEN y ELSE y + 1
  /\ UNCHANGED <<main_pc, argc, have, running, events, nevents, irq_dst, pin,
                 simVars, audioVars, histVars>>

\* draw_display returns: one more frame in this iteration, and since the quit
FrameDone ==
  drawn' = [iter |-> Min(drawn.iter + 1, 2),
            quit |-> IF quitSeen THEN Min(drawn.quit + 1, 2) ELSE drawn.quit]

\* SDL_UpdateTexture, SDL_RenderCopy, SDL_RenderPresent: pixels[] is shown
draw_present ==
  /\ main_pc = "draw"
  /\ y = Height
  /\ main_pc' = "loop_test"
  /\ FrameDone
  /\ UNCHANGED <<argc, have, running, events, nevents, irq_dst, pin, y, x, pixels,
                 simVars, audioVars, produced, pending, npending, firstIdx, cons, stored,
                 stepsAfterStop, quitSeen, drawDirty, lastKey, held>>

\* the pixels draw_display computes from vram as it is now
FullFrame == [i \in 1..(Width * Height) |-> pixel_of((i - 1) \div Width, (i - 1) % Width)]

\* a whole call of draw_display in one step: what draw_pixel and draw_present do
\* when vram is not written during the call
draw_display ==
  /\ main_pc = "draw"
  /\ y = 0
  /\ x = 0
  /\ pixels' = FullFrame
  /\ y' = Height
  /\ main_pc' = "loop_test"
  /\ FrameDone
  /\ UNCHANGED <<argc, have, running, events, nevents, irq_dst, pin, x,
                 simVars, audioVars, produced, pending, npending, firstIdx, cons, stored,
                 stepsAfterStop, quitSeen, drawDirty, lastKey, held>>

\* core_thread.join(), then main returns
main_join ==
  /\ main_pc = "join"
  /\ sim_pc = "done"
  /\ main_pc' = "exited"
  /\ UNCHANGED <<argc, have, running, events, nevents, irq_dst, pin, y, x, pixels,
                 simVars, audioVars, histVars>>

\* ------------------------------------------------------- specifications
CoreTimers == speaker_timer_store \/ speaker_timer_mod \/ avr_run_return
EventLoop == main_loop_test \/ main_poll_event \/ main_poll_empty \/ draw_pixel \/ draw_present
\* the event loop where nothing writes vram: draw_display is one step
EventLoopWhole == main_loop_test \/ main_poll_event \/ main_poll_empty \/ draw_display

\* the whole program
Next ==
  \/ Startup
  \/ run_core_test \/ avr_run_plain \/ avr_run_speaker \/ avr_run_vram \/ CoreTimers
  \/ audio_callback
  \/ host_event(AllEvents)
  \/ EventLoop
  \/ main_join
Spec == Init /\ [][Next]_vars

\* the audio path: the core producing samples, the audio thread consuming them
NextAudio ==
  \/ Startup
  \/ run_core_test \/ avr_run_plain \/ avr_run_speaker \/ CoreTimers
  \/ audio_callback
SpecAudio == Init /\ [][NextAudio]_vars

\* the display path: the core writing vram, the event loop drawing it (the few
\* cycles of the display writes end before the speaker timer is first due)
NextDisplay ==
  \/ Startup
  \/ run_core_test \/ avr_run_vram \/ avr_run_return
  \/ main_loop_test \/ main_poll_empty \/ draw_pixel \/ draw_present
SpecDisplay == Init /\ [][NextDisplay]_vars

\* the input path: host events dispatched by the event loop
NextInput ==
  \/ Startup
  \/ host_event(AllEvents)
  \/ EventLoopWhole
SpecInput == Init /\ [][NextInput]_vars

\* shutdown: the event loop, the core thread and the join
CoreSteps == run_core_test \/ avr_run_plain \/ CoreTimers
MainSteps == Startup \/ EventLoopWhole \/ main_join
NextShutdown ==
  \/ host_event(ShutdownEvents)
  \/ MainSteps
  \/ CoreSteps
SpecShutdown == Init /\ [][NextShutdown]_vars
FairShutdown == SpecShutdown /\ WF_vars(MainSteps) /\ WF_vars(CoreSteps)

\* steady state: the core thread and its timer, the audio thread and the event
\* loop side by side (a silent program that leaves the display blank, and a host
\* that sends no event)
NextSteady ==
  \/ Startup
  \/ CoreSteps
  \/ audio_callback
  \/ main_loop_test \/ main_poll_empty \/ draw_display
SpecSteady == Init /\ [][NextSteady]_vars

\* the user closes the window: the host queues an SDL_QUIT, once
host_quit ==
  /\ nevents = 0
  /\ host_event(QuitEvents)

\* the three contexts from start-up to the join: the core thread and its timer,
\* the audio thread, the event loop, and a host whose only event is one quit
NextContexts ==
  \/ MainSteps
  \/ CoreSteps
  \/ audio_callback
  \/ host_quit
SpecContexts == Init /\ [][NextContexts]_vars

\* ================================================================ claims
\* ---------------------------------------------------------------- C1
\* C1: FIFO under capacity.  From a state where the read cursor equals the write
\* cursor, N <= nsamples calls of speaker_timer followed by one audio_callback of
\* N samples deliver exactly the N stored samples, in the order they were stored.
C1_FifoUnderCapacity ==
  (cons.count > 0 /\ cons.whole /\ cons.n = cons.count /\ cons.n <= nsamples
     /\ cons.first = cons.r)
  => stream = cons.expect

\* ---------------------------------------------------------------- C2
\* C2 as stated: after more than nsamples calls of speaker_timer with no
\* audio_callback in between, an audio_callback of nsamples samples returns the
\* last nsamples stored samples in the order they were stored.
C2_NewestInProductionOrder ==
  (cons.count = nsamples /\ cons.whole /\ cons.n > nsamples)
  => stream = cons.expect

\* C2 amended: that audio_callback (whose read cursor is 0) returns the last
\* nsamples stored samples, each in the slot it was stored in: the j-th oldest of
\* them sits at index (last store index - (nsamples - j)) mod nsamples, so the
\* block is the production order rotated.
C2_NewestInSlotOrder ==
  (cons.count = nsamples /\ cons.whole /\ cons.n > nsamples)
  => /\ cons.r = 0
     /\ Len(stream) = nsamples
     /\ \A j \in 1..nsamples :
          stream[((cons.last + j) % nsamples) + 1] = cons.expect[j]

\* an overrun was consumed and the block was not in production order
C2_Witness ==
  /\ cons.count = nsamples /\ cons.whole /\ cons.n > nsamples
  /\ stream # cons.expect

\* ---------------------------------------------------------------- C3
\* C3: an audio_callback of count samples (1 <= count <= nsamples) reads only
\* slots 0..nsamples-1 of samples[] and leaves the read cursor at
\* (r + count) mod nsamples.
C3_ConsumeInsideRing ==
  (cons.count >= 1 /\ cons.count <= nsamples)
  => /\ cons.maxIdx < nsamples
     /\ out_sample = (cons.r + cons.count) % nsamples

\* ---------------------------------------------------------------- C4
\* C4: speaker_timer never fails or blocks: whenever the timer is due it can
\* store, whatever the read cursor and the number of unread samples; the index it
\* stores at is in 0..nsamples-1, and once the call is over the write cursor is
\* (that index + 1) mod nsamples.
C4_ProduceNeverBlocks ==
  /\ (sim_pc = "timers" /\ timer_when <= avr_cycle) => ENABLED speaker_timer_store
  /\ sim_pc = "mod" => ENABLED speaker_timer_mod
  /\ stored.idx # -1 => stored.idx \in 0..(nsamples - 1)
  /\ (stored.idx # -1 /\ sim_pc # "mod") => cur_sample = (stored.idx + 1) % nsamples

\* speaker_timer has stored into a ring that already held nsamples unread
\* samples, at the slot the read cursor points to
C4_Witness ==
  /\ npending > nsamples
  /\ stored.idx = out_sample
  /\ sim_pc = "timers"
  /\ cur_sample = (stored.idx + 1) % nsamples

\* ---------------------------------------------------------------- C5
\* C5: the sample count follows emulated time only.  The timer is first due one
\* period (next cycles) after cycle 0 and each call moves its deadline by next, so
\* between two avr_run calls produced = cycle div next, and after T emulated
\* seconds T * audio_frequency samples were stored and the write cursor is
\* (T * audio_frequency) mod nsamples, whatever the audio thread did.
C5_SampleCountTracksTime ==
  sim_pc \in {"test", "run", "done"}
  => /\ timer_when = (produced + 1) * next
     /\ produced = avr_cycle \div next
     /\ \A T \in 0..(MaxCycle \div cpu_frequency) :
          avr_cycle = T * cpu_frequency
          => /\ produced = T * audio_frequency
             /\ cur_sample = (T * audio_frequency) % nsamples

\* one emulated second has passed, with audio callbacks in between
C5_Witness ==
  /\ sim_pc = "test"
  /\ avr_cycle = cpu_frequency
  /\ produced = audio_frequency
  /\ cons.count > 0

\* ---------------------------------------------------------------- C6
\* C6 as stated: every sample speaker_timer stores is 0 for speaker level 0 and
\* 32767 for level 1, and nothing else is ever in samples[].
C6_FullAmplitude ==
  /\ stored.idx # -1 => stored.value = (IF stored.level = 0 THEN 0 ELSE 32767)
  /\ \A i \in DOMAIN samples : samples[i] \in {0, 32767}

\* C6 amended: every sample speaker_timer stores is 0 for speaker level 0 and
\* 16384 (0x4000, half of the positive 16-bit range) for level 1, and nothing
\* else is ever in samples[].
C6_HalfAmplitude ==
  /\ stored.idx # -1 => stored.value = (IF stored.level = 0 THEN 0 ELSE 16384)
  /\ \A i \in DOMAIN samples : samples[i] \in {0, 16384}

\* a sample was stored while the speaker level was 1
C6_Witness ==
  /\ stored.idx # -1
  /\ stored.level = 1
  /\ samples[stored.idx] = 16384

\* ---------------------------------------------------------------- C7
\* bit k of byte b
C7_Bit(b, k) == (b \div (2 ^ k)) % 2

\* C7: when vram is not written during the call, draw_display produces
\* Width x Height pixels in which the pixel at row-major index y * Width + x is
\* white iff bit (y mod 8) of vram[y / 8][x] is 1 and black otherwise; a vram whose
\* only set bit is bit 0 of page 0, column 0 gives pixel (0,0) white and every
\* other pixel black.
C7_DisplayConversion ==
  (main_pc \in {"draw", "loop_test"} /\ y = Height /\ ~drawDirty)
  => /\ Len(pixels) = Width * Height
     /\ \A xx \in 0..(Width - 1), yy \in 0..(Height - 1) :
          pixels[yy * Width + xx + 1] =
            (IF C7_Bit(vram[yy \div 8][xx], yy % 8) = 1 THEN WHITE ELSE BLACK)
     /\ vram = [ZeroVram EXCEPT ![0][0] = 1]
        => pixels = [i \in 1..(Width * Height) |-> IF i = 1 THEN WHITE ELSE BLACK]

\* a frame of the vram whose only set bit is bit 0 of page 0, column 0 was drawn
C7_Witness ==
  /\ main_pc = "loop_test" /\ y = Height /\ ~drawDirty
  /\ vram = [ZeroVram EXCEPT ![0][0] = 1]
  /\ pixels[1] = WHITE
  /\ pixels[Width + 1] = BLACK

\* ---------------------------------------------------------------- C8
\* the pin each mapped scancode is bound to
C8_Pin(sc) ==
  CASE sc = "SDL_SCANCODE_UP"    -> "F7"
    [] sc = "SDL_SCANCODE_DOWN"  -> "F4"
    [] sc = "SDL_SCANCODE_LEFT"  -> "F5"
    [] sc = "SDL_SCANCODE_RIGHT" -> "F6"
    [] sc = "SDL_SCANCODE_A"     -> "E6"
    [] sc = "SDL_SCANCODE_S"     -> "B4"

\* C8: a key-down of a mapped scancode sets exactly its bound pin to 0, a key-up
\* sets exactly that pin to 1, the six scancodes are bound to six distinct pins,
\* the other five pins keep their level, and a key event with an unmapped
\* scancode changes no pin.  (Between two key events no pin changes, so the pins
\* are those the last key event left.)
C8_InputMapping ==
  /\ \A s1, s2 \in MappedScancodes : s1 # s2 => C8_Pin(s1) # C8_Pin(s2)
  /\ lastKey.type # "none"
     => IF lastKey.scancode \in MappedScancodes
          THEN /\ pin[C8_Pin(lastKey.scancode)] = (IF lastKey.type = "SDL_KEYDOWN" THEN 0 ELSE 1)
               /\ \A q \in PinNames \ {C8_Pin(lastKey.scancode)} : pin[q] = lastKey.before[q]
          ELSE pin = lastKey.before

\* S was released after another key had been released: B4 went from 0 to 1
C8_Witness ==
  /\ lastKey.type = "SDL_KEYUP"
  /\ lastKey.scancode = "SDL_SCANCODE_S"
  /\ lastKey.before["B4"] = 0
  /\ pin["B4"] = 1
  /\ \E q \in PinNames \ {"B4"} : pin[q] = 1

\* ---------------------------------------------------------------- C9
\* C9: once running is false, run_core starts at most one more avr_run call
\* before it leaves its loop, and it leaves the loop only when running is false.
C9_ShutdownLatency ==
  /\ stepsAfterStop <= 1
  /\ sim_pc = "done" => ~running

\* run_core left its loop after one avr_run call that started with the flag false
C9_Witness ==
  /\ stepsAfterStop = 1
  /\ sim_pc = "done"

\* --------------------------------------------------------------- C10
\* C10: under weak fairness of the main thread and of the core thread, once an
\* SDL_QUIT was dispatched the event loop ends, the core thread ends and the
\* join returns; and until main has returned, some step of the two threads is
\* always possible (no deadlock).
C10_ShutdownTerminates ==
  /\ [](quitSeen => <>(main_pc = "exited" /\ sim_pc = "done"))
  /\ [](quitSeen /\ main_pc # "exited" => ENABLED (MainSteps \/ CoreSteps))

\* main returned from the join after a quit
C10_Witness ==
  /\ quitSeen
  /\ main_pc = "exited"
  /\ sim_pc = "done"

\* --------------------------------------------------------------- C11
\* C11: when the firmware argument is missing (argc <= 1) main returns 1 from its
\* first statement and nothing else ever happens: the core is not created, no
\* display, speaker, timer or button is wired, no audio device is opened, the
\* core thread is never started, no emulated cycle runs, no event is queued or
\* dispatched and no frame is drawn.
C11_UsageError ==
  argc <= 1
  => /\ main_pc \in {"argc", "exit1"}
     /\ sim_pc = "not_started"
     /\ avr_cycle = 0 /\ timer_when = 0 /\ produced = 0
     /\ irq_dst = [b \in Buttons |-> "none"]
     /\ events = << >> /\ nevents = 0 /\ ~quitSeen /\ running
     /\ pixels = << >>
     /\ stream = << >> /\ cons.count = 0

\* main has returned 1
C11_Witness ==
  /\ argc = 1
  /\ main_pc = "exit1"

\* --------------------------------------------------------------- C12
\* C12: whenever main is past SDL_OpenAudio (the core thread is about to be
\* started, or the audio device is unpaused), the configuration obtained equals
\* the one requested in every field: rate, format, channels and block size.
C12_MismatchFatal ==
  main_pc \in ({"spawn", "pause_audio"} \cup AudioRunningPcs) => have = want

\* --------------------------------------------------------------- C13
\* the event loop is running and no quit was handled
C13_Steady == main_pc \in {"loop_test", "poll", "draw"} /\ running

\* C13: in steady state no context waits on another: the core thread can take its
\* next step (unless the emulated clock has reached the end of the model's run),
\* the audio callback can run and the event loop can take its next step, whatever
\* the other two are doing; every audio_callback completes and moves the read
\* cursor by its block's sample count (mod nsamples) wherever the write cursor is
\* and however many samples are unread, and speaker_timer stores wherever the
\* read cursor is.
C13_NoContextWaits ==
  /\ [](C13_Steady =>
          /\ ~(sim_pc = "test" /\ avr_cycle = MaxCycle) => ENABLED CoreSteps
          /\ (sim_pc = "timers" /\ timer_when <= avr_cycle) => ENABLED speaker_timer_store
          /\ ENABLED audio_callback
          /\ ENABLED (main_loop_test \/ main_poll_empty \/ draw_display))
  /\ [][audio_callback =>
          /\ out_sample' = (out_sample + SampleCount(BlockBytes(have))) % nsamples
          /\ Len(stream') = SampleCount(BlockBytes(have))]_vars

\* an audio callback ran with no unread sample, and the producer has since stored
\* again while the event loop is drawing
C13_Witness ==
  /\ C13_Steady
  /\ main_pc = "draw"
  /\ cons.count > 0 /\ cons.n = 0
  /\ sim_pc = "mod"

\* --------------------------------------------------------------- C14
\* C14: cursor ownership under every interleaving.  No step of speaker_timer
\* changes out_sample, and no audio_callback changes cur_sample or a slot of
\* samples[]; conversely out_sample changes only in audio_callback, and
\* cur_sample and samples[] change only in speaker_timer.  This includes an
\* audio_callback that runs between the increment of cur_sample and its
\* reduction mod nsamples.
C14_CursorOwnership ==
  [][/\ (speaker_timer_store \/ speaker_timer_mod) => out_sample' = out_sample
     /\ audio_callback => (cur_sample' = cur_sample /\ samples' = samples)
     /\ out_sample' # out_sample => audio_callback
     /\ (cur_sample' # cur_sample \/ samples' # samples)
          => (speaker_timer_store \/ speaker_timer_mod)]_vars

\* an audio_callback has just run between the increment that took cur_sample to
\* nsamples and the reduction that takes it back to 0
C14_Witness ==
  /\ sim_pc = "mod"
  /\ cur_sample = nsamples
  /\ cons.count > 0
  /\ ~cons.whole
  /\ npending = 0

\* --------------------------------------------------------------- C15
\* C15: order of an event-loop iteration and handling of the quit.  The loop goes
\* from its test to polling, stays there while SDL_PollEvent returns events
\* (also after an SDL_QUIT, which only stores false into running), calls
\* draw_display only once the queue was found empty, and draws exactly one frame
\* per iteration.  A key event polled after the quit still sets its pin.  After
\* the quit exactly one more frame is drawn and the loop is left at its next
\* test: main reaches the join with one frame drawn since the quit.
C15_IterationOrder ==
  /\ [](/\ drawn.iter <= 1 /\ drawn.quit <= 1
        /\ main_pc \in {"poll", "draw"} => drawn.iter = 0
        /\ quitSeen => ~running
        /\ (quitSeen /\ main_pc = "loop_test") => (drawn.iter = 1 /\ drawn.quit = 1)
        /\ main_pc \in {"join", "exited"}
             => (quitSeen /\ drawn.iter = 1 /\ drawn.quit = 1)
        /\ (main_pc = "poll" /\ events # << >>) => ENABLED main_poll_event
        /\ (lastKey.quit /\ lastKey.scancode \in MappedScancodes)
             => pin[C8_Pin(lastKey.scancode)] = (IF lastKey.type = "SDL_KEYDOWN" THEN 0 ELSE 1))
  /\ [][/\ main_pc = "loop_test" => main_pc' = (IF running THEN "poll" ELSE "join")
        /\ (main_pc = "poll" /\ events # << >>) => main_pc' = "poll"
        /\ (main_pc = "poll" /\ main_pc' # "poll") => (events = << >> /\ main_pc' = "draw")
        /\ (main_pc = "draw" /\ main_pc' # "draw") => main_pc' = "loop_test"]_<<main_pc, pin, running>>

\* after a quit, a key-up of S polled in the same iteration raised B4, one more
\* frame was drawn and the loop was left
C15_Witness ==
  /\ main_pc = "join"
  /\ lastKey.quit
  /\ lastKey.type = "SDL_KEYUP" /\ lastKey.scancode = "SDL_SCANCODE_S"
  /\ pin["B4"] = 1
  /\ drawn.quit = 1

\* --------------------------------------------------------------- C16
\* C16: running is true initially; the only step that changes it is the event
\* loop handling an SDL_QUIT, which makes it false (no step of the core thread
\* or of the audio thread changes it); once false it stays false.
C16_RunningMonotone ==
  /\ running = TRUE
  /\ [][running' # running
          => /\ main_poll_event
             /\ Head(events).type = "SDL_QUIT"
             /\ running' = FALSE]_vars
  /\ [][(CoreSteps \/ audio_callback) => running' = running]_vars
  /\ [][~running => ~running']_vars

\* the flag is false, and the core thread and the audio thread have run since
C16_Witness ==
  /\ ~running
  /\ stepsAfterStop = 1
  /\ cons.count > 0
  /\ main_pc = "exited"

\* --------------------------------------------------------------- C17
\* C17: tearing is bounded to real values.  While the core thread writes vram
\* during a draw_display call, every pixel (x, y) the call has produced is the
\* colour of bit (y mod 8) of a value that vram[y / 8][x] held at some moment
\* since the call began (and before it ended), and the finished frame has
\* Width x Height pixels; rows of the same byte may show different moments.
C17_TearingBounded ==
  (main_pc = "draw" \/ (main_pc = "loop_test" /\ y = Height))
  => /\ (y = Height => Len(pixels) = Width * Height)
     /\ \A i \in 1..Len(pixels) :
          \E b \in held[((i - 1) \div Width) \div 8][(i - 1) % Width] :
            pixels[i] = (IF C7_Bit(b, ((i - 1) \div Width) % 8) = 1 THEN WHITE ELSE BLACK)

\* a torn frame: byte (0,0) went from 0 to 165 during the call; row 0 shows the
\* old value (bit 0 of 165 is set) and row 2 the new one
C17_Witness ==
  /\ main_pc = "loop_test" /\ y = Height
  /\ held[0][0] = {0, 165}
  /\ pixels[1] = BLACK
  /\ pixels[2 * Width + 1] = WHITE

C19_WiringPrecedesExecution ==
  /\ avr_cycle > 0
     => /\ main_pc \notin {"argc", "make_avr", "load", "display", "speaker_irq", "timer"}
        /\ \A b \in Buttons : irq_dst[b] \in PinNames
  /\ lastKey.type # "none" => \A b \in Buttons : irq_dst[b] \in PinNames

====
